---- MODULE Spec2Model ----
(***************************************************************************)
(* Territory engine of src/core/World.ts (class World, second definition): *)
(* the parallel cell arrays, capital placement, single-cell expansion, the *)
(* sea query and the per-frame update.                                     *)
(*                                                                         *)
(* Cells are indexed 0..N-1 as in the source; arrays are functions over    *)
(* 0..N-1 and the empty array is the function with empty domain.           *)
(***************************************************************************)
EXTENDS Integers, Sequences, FiniteSets, TLC

\* src/core/World.ts: the fields of World, whether init() has finished, and
\* the call made by the last step
VARIABLES centers, centerNeighbors, centerWater, centerOwned, biomes,
          territorySize, cities, projectiles, capitalPlaced, built, last

\* init() and its collaborators: where init() stands, the response it holds,
\* its cachedDataLoaded flag, the land mask, the server's world-data.json,
\* the save request in flight, the generateWorldData calls of this page load
\* and the number of page loads
VARIABLES pc, fetched, cachedDataLoaded, landImg, worldFile, save, generated, run

\* generateWorldData on its own: the cells h3 returned, their terrain
\* samples and the WorldData produced
VARIABLES hexagons, terrain, worldData

\* the frontier-flood variant of World (src/unnamed/part_008)
VARIABLES vertexNeighbors, vertexWater, vertexOwned, expansions

\* src/core/Game.ts: the gameActive flag; and the onComplete callbacks that
\* update() has invoked, in the order of invocation
VARIABLES gameActive, completions

bootVars == <<pc, fetched, cachedDataLoaded, landImg, worldFile, save, generated, run>>

genVars == <<hexagons, terrain, worldData>>

floodVars == <<vertexNeighbors, vertexWater, vertexOwned, expansions>>

gameVars == <<gameActive, completions>>

vars == <<centers, centerNeighbors, centerWater, centerOwned, biomes,
          territorySize, cities, projectiles, capitalPlaced, built, last,
          bootVars, genVars, floodVars, gameVars>>

territory == <<centerOwned, territorySize, cities>>

-----------------------------------------------------------------------------
(* Bounds of the model *)

\* number of cells of the worlds that init() builds
NumCells == 3
\* calls that would raise territorySize beyond this are not explored
MaxTerritory == 3
\* placeCapital calls that would add a city beyond this are not explored
MaxCities == 2

\* projectiles in flight at once
MaxProjectiles == 3

-----------------------------------------------------------------------------
(* Geometry *)

Vec(a, b, c) == [x |-> a, y |-> b, z |-> c]

\* THREE.Vector3.distanceToSquared
distanceToSquared(p, q) ==
    (p.x - q.x) * (p.x - q.x) + (p.y - q.y) * (p.y - q.y) + (p.z - q.z) * (p.z - q.z)

\* query points: on the cell centres and half way between two of them
Points == { Vec(a, 0, 0) : a \in 0 .. (2 * (NumCells - 1)) }

\* the argument of placeCapital / isSea / startExpansion:
\*   null          - null or undefined
\*   uv            - an object without a point field (the HUD's uv value)
\*   intersection  - a raycast result carrying .point
\*   vector3       - a bare THREE.Vector3
NoPointInputs ==
    { [kind |-> k, point |-> Vec(0, 0, 0)] : k \in {"null", "uv"} }

Intersections == { [kind |-> "intersection", point |-> p] : p \in Points }

\* bare vectors point at the cell centres
Vectors == { [kind |-> "vector3", point |-> Vec(2 * i, 0, 0)] : i \in 0 .. (NumCells - 1) }

\* placeCapital and startExpansion are called with null, a uv value or an
\* intersection; isSea also with a bare vector
Inputs == NoPointInputs \cup Intersections

SeaInputs == Inputs \cup Vectors

\* the speed / committed force argument of startExpansion
Speeds == {0, 200}

\* the frame time passed to update, in milliseconds
Deltas == {16}

\* a test that takes any object for one carrying a point
hasPointOrObject(input) == input.kind \in {"intersection", "uv"}

\* intersection && intersection.point
hasPoint(input) == input.kind = "intersection"

-----------------------------------------------------------------------------
(* World data *)

Cells == DOMAIN centers

length(arr) == Cardinality(DOMAIN arr)

EmptyArray == [i \in {} |-> FALSE]

\* The WorldData that init() hands to buildWorldFromData: n cells in a row,
\* two units apart, each linked to the cell before and the cell after it (the
\* end cells have no neighbour beyond the generated set), with any assignment
\* of water flags.
chainNeighbors(n, i) == { j \in {i - 1, i + 1} : j >= 0 /\ j < n }

\* a WorldData whose arrays are all present
Snapshot(c, n, w, b) ==
    [present |-> TRUE, missing |-> {},
     centers |-> c, centerNeighbors |-> n, centerWater |-> w, biomes |-> b]

\* no WorldData: no file on the server, no response body, nothing generated
NoData ==
    [present |-> FALSE, missing |-> {},
     centers |-> EmptyArray, centerNeighbors |-> EmptyArray,
     centerWater |-> EmptyArray, biomes |-> EmptyArray]

\* no save request has been issued
NoSave == [state |-> "none", data |-> NoData]

chainCenters(n) == [i \in 0 .. (n - 1) |-> Vec(2 * i, 0, 0)]

chainLinks(n) == [i \in 0 .. (n - 1) |-> chainNeighbors(n, i)]

WorldDatas ==
    { Snapshot(chainCenters(NumCells), chainLinks(NumCells), w,
               [i \in 0 .. (NumCells - 1) |-> IF w[i] THEN "ocean" ELSE "land"]) :
      w \in [0 .. (NumCells - 1) -> BOOLEAN] }

-----------------------------------------------------------------------------
(* Nearest-cell scans: one per method, as in the source *)

Infinity == [inf |-> TRUE, v |-> 0]

Finite(d) == [inf |-> FALSE, v |-> d]

\* d < bestd in placeCapital
placeCapitalCloser(d, bestd) == bestd.inf \/ d < bestd.v

\* isSea with d <= bestd: the last of several equally near centres wins
isSeaCloserOrEqual(d, bestd) == bestd.inf \/ d <= bestd.v

\* d < bestd in isSea
isSeaCloser(d, bestd) == bestd.inf \/ d < bestd.v

\* d < bestd in startExpansion
startExpansionCloser(d, bestd) == bestd.inf \/ d < bestd.v

RECURSIVE placeCapitalScan(_, _, _, _)
placeCapitalScan(pt, i, best, bestd) ==
    IF i >= length(centers) THEN best
    ELSE LET d == distanceToSquared(pt, centers[i])
         IN  IF placeCapitalCloser(d, bestd)
             THEN placeCapitalScan(pt, i + 1, i, Finite(d))
             ELSE placeCapitalScan(pt, i + 1, best, bestd)

RECURSIVE isSeaScan(_, _, _, _)
isSeaScan(pt, i, best, bestd) ==
    IF i >= length(centers) THEN best
    ELSE LET d == distanceToSquared(pt, centers[i])
         IN  IF isSeaCloser(d, bestd)
             THEN isSeaScan(pt, i + 1, i, Finite(d))
             ELSE isSeaScan(pt, i + 1, best, bestd)

RECURSIVE startExpansionScan(_, _, _, _)
startExpansionScan(pt, i, best, bestd) ==
    IF i >= length(centers) THEN best
    ELSE LET d == distanceToSquared(pt, centers[i])
         IN  IF startExpansionCloser(d, bestd)
             THEN startExpansionScan(pt, i + 1, i, Finite(d))
             ELSE startExpansionScan(pt, i + 1, best, bestd)

placeCapitalNearest(pt) == placeCapitalScan(pt, 0, -1, Infinity)

isSeaNearest(pt) == isSeaScan(pt, 0, -1, Infinity)

startExpansionNearest(pt) == startExpansionScan(pt, 0, -1, Infinity)

-----------------------------------------------------------------------------
(* Operations.  Each handler is an operator from the current state and its *)
(* arguments to its return value and the territory state it leaves.        *)

\* arr[i] read for its truth value: an index past the end gives undefined
truthy(arr, i) == i \in DOMAIN arr /\ arr[i]

\* this.centerNeighbors[best] || []
neighborsOf(best) == IF best \in DOMAIN centerNeighbors THEN centerNeighbors[best] ELSE {}

Outcome(r, b, owned, size, cs) ==
    [ret |-> r, best |-> b, centerOwned |-> owned, territorySize |-> size, cities |-> cs]

Rejected(b) == Outcome(FALSE, b, centerOwned, territorySize, cities)

City(centerIdx, name) == [cell |-> centerIdx, name |-> name, health |-> 100]

\* this.centerOwned[idx] = true (a JavaScript array write extends the array)
setOwned(owned, idx) == [i \in (DOMAIN owned) \cup {idx} |-> IF i = idx THEN TRUE ELSE owned[i]]

spawnCityAtIndex(centerIdx, name) ==
    Outcome(TRUE, centerIdx,
            setOwned(centerOwned, centerIdx),
            territorySize + 1,
            Append(cities, City(centerIdx, name)))

\* placeCapital without the water test
placeCapitalAnywhere(intersection) ==
    IF ~hasPoint(intersection) THEN Rejected(-1)
    ELSE LET best == placeCapitalNearest(intersection.point)
         IN  IF best = -1 THEN Rejected(best)
             ELSE spawnCityAtIndex(best, "Capital")

\* placeCapital with the adjacency test of startExpansion applied always
placeCapitalGated(intersection) ==
    IF ~hasPoint(intersection) THEN Rejected(-1)
    ELSE LET best == placeCapitalNearest(intersection.point)
         IN  IF best = -1 THEN Rejected(best)
             ELSE IF truthy(centerWater, best) THEN Rejected(best)
             ELSE IF \A n \in neighborsOf(best) : ~truthy(centerOwned, n) THEN Rejected(best)
             ELSE spawnCityAtIndex(best, "Capital")

placeCapital(intersection) ==
    IF ~hasPoint(intersection) THEN Rejected(-1)
    ELSE LET best == placeCapitalNearest(intersection.point)
         IN  IF best = -1 THEN Rejected(best)
             ELSE IF truthy(centerWater, best) THEN Rejected(best)
             ELSE spawnCityAtIndex(best, "Capital")

\* returns the nearest index found and the boolean answer
isSea(input) ==
    IF input.kind \notin {"intersection", "vector3"} THEN [best |-> -1, ret |-> TRUE]
    ELSE LET best == isSeaNearest(input.point)
         IN  IF best = -1 THEN [best |-> best, ret |-> TRUE]
             ELSE [best |-> best, ret |-> truthy(centerWater, best)]

\* this.centerOwned.some(v => v)
anyOwned == \E i \in DOMAIN centerOwned : centerOwned[i]

\* neigh.every(n => this.centerOwned[n])
adjacentEvery(best) == \A n \in neighborsOf(best) : truthy(centerOwned, n)

\* neigh.some(n => this.centerOwned[n])
adjacent(best) == \E n \in neighborsOf(best) : truthy(centerOwned, n)

\* a claim that rebuilds the ownership array around the new cell
claimCellReset(best) ==
    Outcome(TRUE, best, [i \in DOMAIN centerOwned |-> i = best], territorySize + 1, cities)

\* a claim that opens a pending capture and leaves the cell for a later tick
claimCellDeferred(best) ==
    Outcome(TRUE, best, centerOwned, territorySize, cities)

claimCell(best) ==
    Outcome(TRUE, best, setOwned(centerOwned, best), territorySize + 1, cities)

\* startExpansion that claims the cell before the adjacency test
startExpansionClaimFirst(intersection, speed) ==
    IF ~hasPoint(intersection) THEN Rejected(-1)
    ELSE LET best == startExpansionNearest(intersection.point)
         IN  IF best = -1 THEN Rejected(best)
             ELSE IF truthy(centerWater, best) THEN Rejected(best)
             ELSE IF anyOwned /\ ~adjacent(best)
                  THEN Outcome(FALSE, best, setOwned(centerOwned, best),
                               territorySize + 1, cities)
             ELSE claimCell(best)

startExpansion(intersection, speed) ==
    IF ~hasPoint(intersection) THEN Rejected(-1)
    ELSE LET best == startExpansionNearest(intersection.point)
         IN  IF best = -1 THEN Rejected(best)
             ELSE IF truthy(centerWater, best) THEN Rejected(best)
             ELSE IF anyOwned /\ ~adjacent(best) THEN Rejected(best)
             ELSE claimCell(best)

\* progress at which a projectile is complete, in thousandths
ProgressDone == 1000

\* the loop of update(): every projectile advances by delta * speed; those
\* reaching 1 are spliced out, the others keep their order
advance(p, delta) == [p EXCEPT !.progress = @ + delta * p.speed]

\* the loop with if (p.progress > 1)
updateProjectilesPastOne(ps, delta) ==
    SelectSeq([k \in 1 .. Len(ps) |-> advance(ps[k], delta)],
              LAMBDA p : p.progress <= ProgressDone)

updateProjectiles(ps, delta) ==
    SelectSeq([k \in 1 .. Len(ps) |-> advance(ps[k], delta)],
              LAMBDA p : p.progress < ProgressDone)

\* if (p.onComplete) p.onComplete(): the callbacks the loop invokes as it
\* runs from the last projectile (i) down to the first; onComplete = 0 is a
\* projectile without a callback
RECURSIVE completedCallbacks(_, _, _)
completedCallbacks(ps, delta, i) ==
    IF i < 1 THEN <<>>
    ELSE LET p == advance(ps[i], delta)
         IN  (IF p.progress >= ProgressDone /\ p.onComplete # 0
              THEN <<p.onComplete>> ELSE <<>>)
             \o completedCallbacks(ps, delta, i - 1)

-----------------------------------------------------------------------------
(* State machine *)

Call(op, input, speed, best, ret) ==
    [op |-> op, input |-> input, speed |-> speed, best |-> best, ret |-> ret]

NoInput == [kind |-> "null", point |-> Vec(0, 0, 0)]

\* the state of the collaborators of init() before init() is called
bootIdle ==
    /\ pc = "idle"
    /\ fetched = NoData
    /\ cachedDataLoaded = FALSE
    /\ landImg = FALSE
    /\ worldFile = NoData
    /\ save = NoSave
    /\ generated = 0
    /\ run = 1

genIdle ==
    /\ hexagons = <<>>
    /\ terrain = EmptyArray
    /\ worldData = NoData

floodIdle ==
    /\ vertexNeighbors = EmptyArray
    /\ vertexWater = EmptyArray
    /\ vertexOwned = EmptyArray
    /\ expansions = <<>>

\* a new Game: not active; update() has invoked no callback
gameIdle ==
    /\ gameActive = FALSE
    /\ completions = <<>>

\* the fields of a World of src/core/World.ts after its constructor
newWorld ==
    /\ centers = EmptyArray
    /\ centerNeighbors = EmptyArray
    /\ centerWater = EmptyArray
    /\ centerOwned = EmptyArray
    /\ biomes = EmptyArray
    /\ territorySize = 0
    /\ cities = <<>>
    /\ projectiles = <<>>
    /\ capitalPlaced = FALSE
    /\ built = FALSE
    /\ last = Call("new", NoInput, 0, -1, FALSE)

Init ==
    /\ newWorld
    /\ bootIdle
    /\ genIdle
    /\ floodIdle
    /\ gameIdle

\* buildWorldFromData, lines 325-333: installs the arrays and clears the
\* ownership overlay
buildWorldFromData(data) ==
    /\ centers' = data.centers
    /\ centerNeighbors' = data.centerNeighbors
    /\ centerWater' = data.centerWater
    /\ biomes' = data.biomes
    /\ centerOwned' = [i \in DOMAIN data.centers |-> FALSE]

\* init(): runs once per World and ends by building the world from the
\* cached or the generated data
InitWorld ==
    /\ ~built
    /\ \E data \in WorldDatas : buildWorldFromData(data)
    /\ built' = TRUE
    /\ last' = Call("init", NoInput, 0, -1, TRUE)
    /\ UNCHANGED <<territorySize, cities, projectiles, capitalPlaced>>
    /\ UNCHANGED <<bootVars, genVars, floodVars, gameVars>>

InitGame ==
    /\ capitalPlaced' = FALSE
    /\ last' = Call("initGame", NoInput, 0, -1, TRUE)
    /\ UNCHANGED <<centers, centerNeighbors, centerWater, centerOwned, biomes,
                   territorySize, cities, projectiles, built>>
    /\ UNCHANGED <<bootVars, genVars, floodVars, gameVars>>

\* one call of placeCapital with an argument from the given set
placeCapitalCall(inputs) ==
    \E input \in inputs :
        \E out \in {placeCapital(input)} :
            /\ out.ret => (territorySize < MaxTerritory /\ Len(cities) < MaxCities)
            /\ centerOwned' = out.centerOwned
            /\ territorySize' = out.territorySize
            /\ cities' = out.cities
            /\ last' = Call("placeCapital", input, 0, out.best, out.ret)
            /\ UNCHANGED <<centers, centerNeighbors, centerWater, biomes, projectiles,
                           capitalPlaced, built>>

PlaceCapital ==
    /\ placeCapitalCall(Inputs)
    /\ UNCHANGED <<bootVars, genVars, floodVars, gameVars>>

isSeaCall(inputs) ==
    \E input \in inputs :
        \E out \in {isSea(input)} :
            /\ last' = Call("isSea", input, 0, out.best, out.ret)
            /\ UNCHANGED <<centers, centerNeighbors, centerWater, centerOwned, biomes,
                           territorySize, cities, projectiles, capitalPlaced, built>>

IsSea ==
    /\ isSeaCall(SeaInputs)
    /\ UNCHANGED <<bootVars, genVars, floodVars, gameVars>>

startExpansionCall(inputs, speeds) ==
    \E input \in inputs, speed \in speeds :
        \E out \in {startExpansion(input, speed)} :
            /\ out.ret => territorySize < MaxTerritory
            /\ centerOwned' = out.centerOwned
            /\ territorySize' = out.territorySize
            /\ cities' = out.cities
            /\ last' = Call("startExpansion", input, speed, out.best, out.ret)
            /\ UNCHANGED <<centers, centerNeighbors, centerWater, biomes, projectiles,
                           capitalPlaced, built>>

StartExpansion ==
    /\ startExpansionCall(Inputs, Speeds)
    /\ UNCHANGED <<bootVars, genVars, floodVars, gameVars>>

Update ==
    \E delta \in Deltas :
        /\ projectiles' = updateProjectiles(projectiles, delta)
        /\ completions' =
              completions \o completedCallbacks(projectiles, delta, Len(projectiles))
        /\ last' = Call("update", NoInput, 0, -1, TRUE)
        /\ UNCHANGED <<centers, centerNeighbors, centerWater, centerOwned, biomes,
                       territorySize, cities, capitalPlaced, built>>
        /\ UNCHANGED <<bootVars, genVars, floodVars, gameActive>>

Next ==
    \/ InitWorld
    \/ InitGame
    \/ PlaceCapital
    \/ IsSea
    \/ StartExpansion
    \/ Update

Spec == Init /\ [][Next]_vars

-----------------------------------------------------------------------------
(* The frontier-flood variant of World (src/unnamed/part_008): ownership   *)
(* lives on the vertices of the globe mesh, the constructor builds the     *)
(* world, and update floods outward from the one expansion record.         *)

\* number of vertices of the globe geometry
NumVertices == 4

Vertices == 0 .. (NumVertices - 1)

\* geometry.attributes.position
vertexPosition(i) == Vec(2 * i, 0, 0)

FloodPoints == { Vec(a, 0, 0) : a \in 0 .. (2 * (NumVertices - 1)) }

\* the speed argument of startExpansion
FloodSpeeds == {0, 1, 5}

\* the index buffer of the geometry, one triple per triangle: a strip, a fan
\* around vertex 0, and a single triangle that leaves the other vertices
\* without neighbours
stripIndex == [k \in 1 .. (NumVertices - 2) |-> <<k - 1, k, k + 1>>]

fanIndex == [k \in 1 .. (NumVertices - 2) |-> <<0, k, k + 1>>]

IndexBuffers == { stripIndex, fanIndex, <<<<0, 1, 2>>>> }

\* Array.prototype.includes
includes(arr, v) == \E k \in 1 .. Len(arr) : arr[k] = v

\* addNeighbor with the second direction left out
addNeighborOneWay(nb, a, b) ==
    IF includes(nb[a], b) THEN nb ELSE [nb EXCEPT ![a] = Append(@, b)]

addNeighbor(nb, a, b) ==
    LET nb1 == IF includes(nb[a], b) THEN nb ELSE [nb EXCEPT ![a] = Append(@, b)]
    IN  IF includes(nb1[b], a) THEN nb1 ELSE [nb1 EXCEPT ![b] = Append(@, a)]

\* the adjacency loop of createEnvironment over the index buffer
RECURSIVE buildAdjacency(_, _, _)
buildAdjacency(nb, index, k) ==
    IF k > Len(index) THEN nb
    ELSE LET a == index[k][1]
             b == index[k][2]
             c == index[k][3]
         IN  buildAdjacency(addNeighbor(addNeighbor(addNeighbor(nb, a, b), b, c), c, a),
                            index, k + 1)

createEnvironment(index, water) ==
    /\ vertexNeighbors' = buildAdjacency([i \in Vertices |-> <<>>], index, 1)
    /\ vertexWater' = water
    /\ vertexOwned' = [i \in Vertices |-> FALSE]

\* dist < closestDist
floodCloser(dist, closestDist) == closestDist.inf \/ dist < closestDist.v

RECURSIVE closestVertexScan(_, _, _, _)
closestVertexScan(localPoint, i, closestIdx, closestDist) ==
    IF i >= length(vertexOwned) THEN closestIdx
    ELSE LET dist == distanceToSquared(vertexPosition(i), localPoint)
         IN  IF floodCloser(dist, closestDist)
             THEN closestVertexScan(localPoint, i + 1, i, Finite(dist))
             ELSE closestVertexScan(localPoint, i + 1, closestIdx, closestDist)

closestVertex(point) == closestVertexScan(point, 0, -1, Infinity)

FloodOutcome(r, idx, owned, size, exps) ==
    [ret |-> r, best |-> idx, vertexOwned |-> owned, territorySize |-> size,
     expansions |-> exps]

FloodRejected(idx) == FloodOutcome(FALSE, idx, vertexOwned, territorySize, expansions)

\* an expansion pushed without its start vertex in the frontier
ExpansionEmptyFrontier(idx, speed) == [frontier |-> <<>>, speed |-> speed, timer |-> 0]

Expansion(idx, speed) == [frontier |-> <<idx>>, speed |-> speed, timer |-> 0]

\* the body of startExpansion after the expansions.length test
floodClaim(point, speed) ==
    LET closestIdx == closestVertex(point)
    IN  IF closestIdx = -1 THEN FloodRejected(closestIdx)
        ELSE IF vertexWater[closestIdx] THEN FloodRejected(closestIdx)
        ELSE FloodOutcome(TRUE, closestIdx,
                          [vertexOwned EXCEPT ![closestIdx] = TRUE],
                          territorySize + 1,
                          Append(expansions, Expansion(closestIdx, speed)))

\* startExpansion without the test for an expansion in progress
floodStartExpansionAgain(point, speed) == floodClaim(point, speed)

\* part_008 startExpansion(point, speed); this.globe is set by the constructor
floodStartExpansion(point, speed) ==
    IF Len(expansions) > 0 THEN FloodRejected(-1)
    ELSE floodClaim(point, speed)

\* 0.02 s of exp.timer, in milliseconds
ExpansionTick == 20

\* if (!vertexOwned[nIdx]) { own it, count it, push it }
visitNeighborAnyTerrain(st, nIdx) ==
    IF ~st.owned[nIdx]
    THEN [owned |-> [st.owned EXCEPT ![nIdx] = TRUE],
          size |-> st.size + 1,
          newFrontier |-> Append(st.newFrontier, nIdx)]
    ELSE st

\* if (!vertexOwned[nIdx] && !vertexWater[nIdx]) { own it, count it, push it }
visitNeighbor(st, nIdx) ==
    CHOOSE next \in { IF ~s.owned[nIdx] /\ ~vertexWater[nIdx]
                      THEN [owned |-> [s.owned EXCEPT ![nIdx] = TRUE],
                            size |-> s.size + 1,
                            newFrontier |-> Append(s.newFrontier, nIdx)]
                      ELSE s : s \in {st} } : TRUE

\* for (const nIdx of neighbors)
RECURSIVE visitNeighbors(_, _, _)
visitNeighbors(st, neighbors, k) ==
    IF k > Len(neighbors) THEN st
    ELSE visitNeighbors(visitNeighbor(st, neighbors[k]), neighbors, k + 1)

\* for (const idx of exp.frontier)
RECURSIVE visitFrontier(_, _, _)
visitFrontier(st, frontier, k) ==
    IF k > Len(frontier) THEN st
    ELSE visitFrontier(visitNeighbors(st, vertexNeighbors[frontier[k]], 1), frontier, k + 1)

\* while (exp.timer > 0.02): one expansion tick per turn.  The singleton
\* sets here and in visitNeighbor bind a value that is computed once and
\* read several times (const newFrontier, the loop's running state).
RECURSIVE expansionLoop(_, _, _)
expansionLoop(exp, owned, size) ==
    IF exp.timer > ExpansionTick
    THEN CHOOSE next \in
             { expansionLoop([timer |-> exp.timer - ExpansionTick,
                              speed |-> exp.speed,
                              frontier |-> IF Len(st.newFrontier) > 0
                                           THEN st.newFrontier ELSE exp.frontier],
                             st.owned, st.size) :
               st \in { visitFrontier([owned |-> owned, size |-> size,
                                       newFrontier |-> <<>>], exp.frontier, 1) } } : TRUE
    ELSE [exp |-> exp, owned |-> owned, size |-> size]

\* this.expansions.forEach(exp => ...)
RECURSIVE updateExpansions(_, _, _, _, _)
updateExpansions(exps, k, delta, owned, size) ==
    IF k > Len(exps) THEN [expansions |-> exps, owned |-> owned, size |-> size]
    ELSE CHOOSE next \in
             { updateExpansions([exps EXCEPT ![k] = r.exp], k + 1, delta, r.owned, r.size) :
               r \in { expansionLoop([exps[k] EXCEPT !.timer = @ + delta * exps[k].speed],
                                      owned, size) } } : TRUE

FloodInit ==
    /\ centers = EmptyArray
    /\ centerNeighbors = EmptyArray
    /\ centerWater = EmptyArray
    /\ centerOwned = EmptyArray
    /\ biomes = EmptyArray
    /\ territorySize = 0
    /\ cities = <<>>
    /\ projectiles = <<>>
    /\ capitalPlaced = FALSE
    /\ built = TRUE
    /\ last = Call("new", NoInput, 0, -1, FALSE)
    /\ bootIdle
    /\ genIdle
    /\ gameIdle
    /\ expansions = <<>>
    /\ \E index \in IndexBuffers, water \in [Vertices -> BOOLEAN] :
          /\ vertexNeighbors = buildAdjacency([i \in Vertices |-> <<>>], index, 1)
          /\ vertexWater = water
          /\ vertexOwned = [i \in Vertices |-> FALSE]

\* one call startExpansion({point}, speed)
FloodStartWith(point, speed) ==
    \E out \in {floodStartExpansion(point, speed)} :
        /\ vertexOwned' = out.vertexOwned
        /\ territorySize' = out.territorySize
        /\ expansions' = out.expansions
        /\ last' = Call("startExpansion", [kind |-> "vector3", point |-> point],
                        speed, out.best, out.ret)
        /\ UNCHANGED <<centers, centerNeighbors, centerWater, centerOwned, biomes,
                       cities, projectiles, capitalPlaced, built,
                       vertexNeighbors, vertexWater, bootVars, genVars, gameVars>>

FloodStartExpansion ==
    \E point \in FloodPoints, speed \in FloodSpeeds : FloodStartWith(point, speed)

\* update(delta, false): the menu only spins the globe
FloodUpdateMenu ==
    /\ last' = Call("update", NoInput, 0, -1, FALSE)
    /\ UNCHANGED <<centers, centerNeighbors, centerWater, centerOwned, biomes,
                   territorySize, cities, projectiles, capitalPlaced, built,
                   floodVars, bootVars, genVars, gameVars>>

\* update(delta, true): projectiles, then the expansions
FloodUpdate ==
    \E delta \in Deltas :
        \E r \in {updateExpansions(expansions, 1, delta, vertexOwned, territorySize)} :
            /\ projectiles' = updateProjectiles(projectiles, delta)
            /\ expansions' = r.expansions
            /\ vertexOwned' = r.owned
            /\ territorySize' = r.size
            /\ last' = Call("update", NoInput, 0, -1, TRUE)
            /\ UNCHANGED <<centers, centerNeighbors, centerWater, centerOwned, biomes,
                           cities, capitalPlaced, built,
                           vertexNeighbors, vertexWater, bootVars, genVars, gameVars>>

FloodNext ==
    \/ FloodStartExpansion
    \/ FloodUpdateMenu
    \/ FloodUpdate

FloodSpec == FloodInit /\ [][FloodNext]_vars

\* delta * speed > 0: the speeds that make the flood advance
AdvancingSpeeds == { speed \in FloodSpeeds : speed > 0 }

\* the one call that starts the flood; a call during the flood is rejected
\* and changes nothing
FairStartExpansion ==
    /\ Len(expansions) = 0
    /\ \E point \in FloodPoints, speed \in AdvancingSpeeds : FloodStartWith(point, speed)

FairFloodNext ==
    \/ FairStartExpansion
    \/ FloodUpdate

\* the animation loop keeps calling update(delta, true)
FairFloodSpec == FloodInit /\ [][FairFloodNext]_vars /\ WF_vars(FloodUpdate)

-----------------------------------------------------------------------------
(* update() of src/core/World.ts over projectiles in flight.  Nothing in   *)
(* the class launches a projectile: the list found by update() is an input.*)

\* progress in thousandths, speed per second, onComplete 0 for none
Projectile(progress, speed, onComplete) ==
    [progress |-> progress, speed |-> speed, onComplete |-> onComplete]

ProjectileKinds ==
    { Projectile(p, v, c) : p \in {0, 40}, v \in {25, 60}, c \in {0, 1} }

ProjectileLists == UNION { [1 .. n -> ProjectileKinds] : n \in 0 .. MaxProjectiles }

ProjectileInit ==
    /\ centers = EmptyArray
    /\ centerNeighbors = EmptyArray
    /\ centerWater = EmptyArray
    /\ centerOwned = EmptyArray
    /\ biomes = EmptyArray
    /\ territorySize = 0
    /\ cities = <<>>
    /\ projectiles \in ProjectileLists
    /\ capitalPlaced = FALSE
    /\ built = FALSE
    /\ last = Call("new", NoInput, 0, -1, FALSE)
    /\ bootIdle
    /\ genIdle
    /\ floodIdle
    /\ gameIdle

ProjectileNext == Update

ProjectileSpec == ProjectileInit /\ [][ProjectileNext]_vars

-----------------------------------------------------------------------------
(* Either variant of class World, with the calls that can claim a cell *)

\* the centre of every cell
CentreInputs ==
    { [kind |-> "intersection", point |-> Vec(2 * i, 0, 0)] : i \in 0 .. (NumCells - 1) }

EitherInit == Init \/ FloodInit

EitherPlaceCapital ==
    /\ placeCapitalCall(CentreInputs)
    /\ UNCHANGED <<bootVars, genVars, floodVars, gameVars>>

EitherStartExpansion ==
    /\ startExpansionCall(CentreInputs, Speeds)
    /\ UNCHANGED <<bootVars, genVars, floodVars, gameVars>>

\* a World of src/core/World.ts has no vertex arrays, one of part_008 has
EitherNext ==
    \/ vertexOwned = EmptyArray /\ InitWorld
    \/ vertexOwned = EmptyArray /\ EitherPlaceCapital
    \/ vertexOwned = EmptyArray /\ EitherStartExpansion
    \/ vertexOwned = EmptyArray /\ Update
    \/ vertexOwned # EmptyArray /\ FloodStartExpansion
    \/ vertexOwned # EmptyArray /\ FloodUpdate

EitherSpec == EitherInit /\ [][EitherNext]_vars

-----------------------------------------------------------------------------
(* generateWorldData (src/core/World.ts:248-322).  The h3-js library and   *)
(* the floating-point terrain arithmetic lie outside the class: the cell   *)
(* list h3.polygonToCells returns and the latitude, elevation and dryness  *)
(* computed for each cell are inputs of the generator.                     *)

\* the H3 cells of the resolution: NumCells cells in a row
HexIds == 1 .. NumCells

\* h3.gridDisk(h, 1): the cell and the cells that share an edge with it
gridDisk(h) == { n \in HexIds : n - h \in {-1, 0, 1} }

\* latLngToVector3(h3.cellToLatLng(h)): the cells lie two units apart
cellCenter(h) == Vec(2 * (h - 1), 0, 0)

\* what h3.polygonToCells may return: any list of distinct cells
HexLists ==
    { s \in UNION { [1 .. k -> HexIds] : k \in 0 .. NumCells } :
        \A a, b \in 1 .. Len(s) : a # b => s[a] # s[b] }

\* latitude in degrees, elevation and dryness in thousandths
Sample(lat, elevation, dry) == [lat |-> lat, elevation |-> elevation, dry |-> dry]

\* one sample for each branch of the biome test and for each threshold
Samples ==
    << Sample(80, 900, 0), Sample(-80, 400, 0), Sample(72, 400, 0),
       Sample(0, 500, 0), Sample(0, 530, 800), Sample(0, 800, 700),
       Sample(0, 900, 0), Sample(0, 600, 500) >>

\* the terrain of the planet: cell h gets the sample `shift` places after h
terrainProfile(shift) == [h \in HexIds |-> Samples[((h + shift) % Len(Samples)) + 1]]

TerrainProfiles == { terrainProfile(shift) : shift \in 0 .. (Len(Samples) - 1) }

PoleLatitude == 72

SeaLevel == 500

CoastBand == 30

MountainLevel == 800

DryLevel == 700

Abs(x) == IF x < 0 THEN 0 - x ELSE x

\* the biome test with the sea-level test ahead of the pole test
biomeOfOceanFirst(s) ==
    IF s.elevation < SeaLevel THEN "ocean"
    ELSE IF Abs(s.lat) > PoleLatitude THEN "pole"
    ELSE IF s.elevation < SeaLevel + CoastBand THEN "coast"
    ELSE IF s.elevation > MountainLevel THEN "mountain"
    ELSE IF s.dry > DryLevel THEN "desert"
    ELSE "land"

\* lines 296-306
biomeOf(s) ==
    IF Abs(s.lat) > PoleLatitude THEN "pole"
    ELSE IF s.elevation < SeaLevel THEN "ocean"
    ELSE IF s.elevation < SeaLevel + CoastBand THEN "coast"
    ELSE IF s.elevation > MountainLevel THEN "mountain"
    ELSE IF s.dry > DryLevel THEN "desert"
    ELSE "land"

\* the value of hexToIndex.get(n) for a cell that is not in the map
Undefined == -1

\* hexToIndex.get(n) after hexagons.forEach((h, i) => hexToIndex.set(h, i))
hexToIndexGet(hexs, n) ==
    IF \E k \in 1 .. Len(hexs) : hexs[k] = n
    THEN (CHOOSE k \in 1 .. Len(hexs) : hexs[k] = n) - 1
    ELSE Undefined

\* filter(idx => idx): index 0 is dropped with the undefined ones
keepIndexTruthy(idx) == idx # Undefined /\ idx # 0

\* filter(idx => idx !== undefined)
keepIndex(idx) == idx # Undefined

\* lines 272-275 without filter(n => n !== h)
generatedNeighborsWithSelf(hexs, h) ==
    { idx \in { hexToIndexGet(hexs, n) : n \in gridDisk(h) } : keepIndex(idx) }

\* lines 272-275: the neighbours of cell h as indices into hexagons
generatedNeighbors(hexs, h) ==
    { idx \in { hexToIndexGet(hexs, n) : n \in gridDisk(h) \ {h} } : keepIndex(idx) }

generateWorldData(hexs, terr) ==
    LET n == Len(hexs)
        biome == [i \in 0 .. (n - 1) |-> biomeOf(terr[hexs[i + 1]])]
    IN  Snapshot([i \in 0 .. (n - 1) |-> cellCenter(hexs[i + 1])],
                 [i \in 0 .. (n - 1) |-> generatedNeighbors(hexs, hexs[i + 1])],
                 [i \in 0 .. (n - 1) |-> biome[i] = "ocean"],
                 biome)

\* h3.cellToLatLng(h)[1]: the cells lie ten degrees apart
cellLng(h) == 10 * h

\* the arrays of the WorldData that buildWorldFromData only stores:
\* centerLat, centerLng (lines 269-270), hexagons (line 258) and elevations
\* (line 308)
generatedColumns(hexs, terr) ==
    LET n == Len(hexs)
    IN  [centerLat |-> [i \in 0 .. (n - 1) |-> terr[hexs[i + 1]].lat],
         centerLng |-> [i \in 0 .. (n - 1) |-> cellLng(hexs[i + 1])],
         hexagons |-> [i \in 0 .. (n - 1) |-> hexs[i + 1]],
         elevations |-> [i \in 0 .. (n - 1) |-> terr[hexs[i + 1]].elevation]]

\* JSON null
Null == -2

\* JSON.stringify of a number slot: an undefined entry is written as null
stringifyNumber(v) == IF v = Undefined THEN Null ELSE v

\* JSON.stringify of an array: the list of its elements in index order
stringifyList(arr) == [k \in 1 .. length(arr) |-> arr[k - 1]]

stringifyNumbers(arr) == [k \in 1 .. length(arr) |-> stringifyNumber(arr[k - 1])]

\* JSON.parse of a list: an array indexed from 0
parseList(text) == [i \in 0 .. (Len(text) - 1) |-> text[i + 1]]

\* JSON.stringify(data), line 227, for the arrays the world is built from
stringifyWorld(data) ==
    [centers |-> stringifyList(data.centers),
     centerNeighbors |->
         [k \in 1 .. length(data.centerNeighbors) |->
             { stringifyNumber(j) : j \in data.centerNeighbors[k - 1] }],
     centerWater |-> stringifyList(data.centerWater),
     biomes |-> stringifyList(data.biomes)]

\* JSON.stringify(data), line 227, for the arrays that are only stored
stringifyColumns(cols) ==
    [centerLat |-> stringifyNumbers(cols.centerLat),
     centerLng |-> stringifyNumbers(cols.centerLng),
     hexagons |-> stringifyList(cols.hexagons),
     elevations |-> stringifyNumbers(cols.elevations)]

\* express.json() on the server, response.json() in init()
parseWorld(text) ==
    Snapshot(parseList(text.centers), parseList(text.centerNeighbors),
             parseList(text.centerWater), parseList(text.biomes))

parseColumns(text) ==
    [centerLat |-> parseList(text.centerLat),
     centerLng |-> parseList(text.centerLng),
     hexagons |-> parseList(text.hexagons),
     elevations |-> parseList(text.elevations)]

\* a save endpoint that writes the centers and empties the other arrays
storeBodyCentersOnly(text) ==
    [centers |-> text.centers, centerNeighbors |-> <<>>, centerWater |-> <<>>,
     biomes |-> <<>>]

\* POST /api/save-world: the parsed request body is written with
\* JSON.stringify (part_010 lines 17 and 26)
storeBody(text) == stringifyWorld(parseWorld(text))

storeColumns(text) == stringifyColumns(parseColumns(text))

\* what response.json() yields for the file stored for `data`
loadSaved(data) == parseWorld(storeBody(stringifyWorld(data)))

loadSavedColumns(cols) == parseColumns(storeColumns(stringifyColumns(cols)))

\* the inputs of one generation
GenInit ==
    /\ newWorld
    /\ bootIdle
    /\ floodIdle
    /\ gameIdle
    /\ hexagons \in HexLists
    /\ terrain \in TerrainProfiles
    /\ worldData = NoData

GenGenerate ==
    /\ ~worldData.present
    /\ worldData' = generateWorldData(hexagons, terrain)
    /\ last' = Call("generateWorldData", NoInput, 0, -1, TRUE)
    /\ UNCHANGED <<centers, centerNeighbors, centerWater, centerOwned, biomes,
                   territorySize, cities, projectiles, capitalPlaced, built>>
    /\ UNCHANGED <<bootVars, floodVars, hexagons, terrain, gameVars>>

GenBuild ==
    /\ worldData.present
    /\ ~built
    /\ buildWorldFromData(worldData)
    /\ built' = TRUE
    /\ last' = Call("init", NoInput, 0, -1, TRUE)
    /\ UNCHANGED <<territorySize, cities, projectiles, capitalPlaced>>
    /\ UNCHANGED <<bootVars, genVars, floodVars, gameVars>>

\* the constructor of the frontier-flood variant builds its adjacency from
\* the index buffer of the globe geometry
GenCreateEnvironment ==
    /\ vertexOwned = EmptyArray
    /\ \E index \in IndexBuffers : createEnvironment(index, [i \in Vertices |-> FALSE])
    /\ last' = Call("createEnvironment", NoInput, 0, -1, TRUE)
    /\ UNCHANGED <<centers, centerNeighbors, centerWater, centerOwned, biomes,
                   territorySize, cities, projectiles, capitalPlaced, built>>
    /\ UNCHANGED <<bootVars, genVars, expansions, gameVars>>

\* the generated data is posted and stored
GenSave ==
    /\ worldData.present
    /\ ~worldFile.present
    /\ worldFile' = loadSaved(worldData)
    /\ last' = Call("save", NoInput, 0, -1, TRUE)
    /\ UNCHANGED <<centers, centerNeighbors, centerWater, centerOwned, biomes,
                   territorySize, cities, projectiles, capitalPlaced, built>>
    /\ UNCHANGED <<pc, fetched, cachedDataLoaded, landImg, save, generated, run>>
    /\ UNCHANGED <<genVars, floodVars, gameVars>>

\* a later init() builds the world from the stored file
GenLoad ==
    /\ worldFile.present
    /\ ~built
    /\ buildWorldFromData(worldFile)
    /\ built' = TRUE
    /\ last' = Call("json", NoInput, 0, -1, TRUE)
    /\ UNCHANGED <<territorySize, cities, projectiles, capitalPlaced>>
    /\ UNCHANGED <<bootVars, genVars, floodVars, gameVars>>

GenNext ==
    \/ GenGenerate
    \/ GenBuild
    \/ GenCreateEnvironment
    \/ GenSave
    \/ GenLoad

GenSpec == GenInit /\ [][GenNext]_vars

-----------------------------------------------------------------------------
(* init() (src/core/World.ts:192-222) as a process.  It is suspended at    *)
(* three awaits: the fetch of /world-data.json, response.json() and        *)
(* loadLandMask; between them the event handlers of the page may call      *)
(* placeCapital, startExpansion and isSea.  The save request is issued and *)
(* never awaited; the server keeps what it stores in public/world-data.json*)
(* (src/unnamed/part_010) when the page is loaded again.                   *)

\* number of page loads, each with a new World and one call of init()
MaxRuns == 2

arrays == <<centers, centerNeighbors, centerWater, biomes>>

\* every cell of the resolution, in order
fullHexagons == [k \in 1 .. NumCells |-> k]

\* what h3.polygonToCells returns in a run: every cell, or no cell
BootHexLists == { <<>>, fullHexagons }

\* the terrain of the planet: the last cell is ocean, the others are land
bootTerrain == [h \in HexIds |-> IF h = NumCells THEN Samples[3] ELSE Samples[8]]

\* what the reference image shows: its brightness, sampled at each cell as
\* in part_006 lines 143-151, makes the first cell ocean and the others land
imageTerrain == [h \in HexIds |-> IF h = 1 THEN Samples[3] ELSE Samples[8]]

\* a file as POST /api/save-world stores it
storedWorld == generateWorldData(fullHexagons, bootTerrain)

\* a file that is not JSON: response.json() rejects
Unparsable == [NoData EXCEPT !.present = TRUE, !.missing = {"syntax"}]

\* JSON without a centers array
withoutCenters == [storedWorld EXCEPT !.missing = {"centers"}, !.centers = EmptyArray]

\* JSON without a biomes array
withoutBiomes == [storedWorld EXCEPT !.missing = {"biomes"}, !.biomes = EmptyArray]

\* centerWater cut short by one entry
truncatedWater ==
    [storedWorld EXCEPT
        !.centerWater = [i \in 0 .. (NumCells - 2) |-> storedWorld.centerWater[i]]]

\* a neighbour list that names the index N
strayNeighbor == [storedWorld EXCEPT !.centerNeighbors[0] = @ \cup {NumCells}]

\* what public/world-data.json may hold when the page is first loaded
ServerFiles ==
    { NoData, Unparsable, storedWorld, withoutCenters, withoutBiomes,
      truncatedWater, strayNeighbor }

\* where buildWorldFromData(data) throws a TypeError: "early" in
\* data.centers.map (line 325), before any assignment; "late" in the mesh
\* loop at this.biomes[i] (line 367), after lines 325-333; or not at all
buildThrows(data) ==
    IF "centers" \in data.missing THEN "early"
    ELSE IF "biomes" \in data.missing /\ DOMAIN data.centers # {} THEN "late"
    ELSE "none"

\* lines 202-208 with cachedDataLoaded never set
afterCacheAlwaysGenerates(loaded) == "mask"

\* lines 202-208: cachedDataLoaded = true skips the generation branch
afterCache(loaded) == IF loaded THEN "done" ELSE "mask"

\* saveWorldDataToFile: the request as issued, lines 227-236
saveWorldDataToFile(data) == [state |-> "pending", data |-> data]

\* the replies to POST /api/save-world
SaveOutcomes == { "stored", "network error", "error response", "unparsable reply" }

\* the arguments the event handlers pass while init() runs
BootCapitalInputs == { [kind |-> "intersection", point |-> Vec(0, 0, 0)] }

BootExpansionInputs == { [kind |-> "intersection", point |-> Vec(2, 0, 0)] }

BootSeaInputs == { [kind |-> "intersection", point |-> Vec(2 * (NumCells - 1), 0, 0)] }

BootSpeeds == {200}

BootInit ==
    /\ newWorld
    /\ genIdle
    /\ floodIdle
    /\ gameIdle
    /\ pc = "idle"
    /\ fetched = NoData
    /\ cachedDataLoaded = FALSE
    /\ landImg = FALSE
    /\ worldFile \in ServerFiles
    /\ save = NoSave
    /\ generated = 0
    /\ run = 1

\* init() is called and runs up to await fetch('/world-data.json')
BootStart ==
    /\ pc = "idle"
    /\ pc' = "fetch"
    /\ last' = Call("init", NoInput, 0, -1, TRUE)
    /\ UNCHANGED <<arrays, territory, projectiles, capitalPlaced, built>>
    /\ UNCHANGED <<fetched, cachedDataLoaded, landImg, worldFile, save, generated, run>>
    /\ UNCHANGED <<genVars, floodVars, gameVars>>

\* the fetch settles: a response carrying the file, a 404 response when
\* there is no file, or a rejection
BootFetch ==
    /\ pc = "fetch"
    /\ \E outcome \in {"response", "failure"} :
          IF outcome = "response" /\ worldFile.present
          THEN pc' = "json" /\ fetched' = worldFile
          ELSE pc' = "mask" /\ fetched' = NoData
    /\ last' = Call("fetch", NoInput, 0, -1, TRUE)
    /\ UNCHANGED <<arrays, territory, projectiles, capitalPlaced, built>>
    /\ UNCHANGED <<cachedDataLoaded, landImg, worldFile, save, generated, run>>
    /\ UNCHANGED <<genVars, floodVars, gameVars>>

\* response.json() settles and buildWorldFromData(data) runs, lines 199-206
BootJson ==
    /\ pc = "json"
    /\ IF "syntax" \in fetched.missing \/ buildThrows(fetched) = "early"
       THEN /\ UNCHANGED <<arrays, centerOwned>>
            /\ cachedDataLoaded' = FALSE
       ELSE /\ buildWorldFromData(fetched)
            /\ cachedDataLoaded' = (buildThrows(fetched) = "none")
    /\ pc' = afterCache(cachedDataLoaded')
    /\ built' = (pc' = "done")
    /\ last' = Call("json", NoInput, 0, -1, cachedDataLoaded')
    /\ UNCHANGED <<territorySize, cities, projectiles, capitalPlaced>>
    /\ UNCHANGED <<fetched, landImg, worldFile, save, generated, run>>
    /\ UNCHANGED <<genVars, floodVars, gameVars>>

\* loadLandMask settles (image loaded, image error, or the 5 s timeout) and
\* lines 216-218 run: generate, build, issue the save
BootMask ==
    /\ pc = "mask"
    /\ \E outcome \in {"loaded", "error", "timeout"} :
          landImg' = (outcome = "loaded")
    /\ \E hexs \in BootHexLists :
          worldData' = generateWorldData(hexs, bootTerrain)
    /\ buildWorldFromData(worldData')
    /\ save' = saveWorldDataToFile(worldData')
    /\ generated' = generated + 1
    /\ pc' = "done"
    /\ built' = TRUE
    /\ last' = Call("mask", NoInput, 0, -1, landImg')
    /\ UNCHANGED <<territorySize, cities, projectiles, capitalPlaced>>
    /\ UNCHANGED <<fetched, cachedDataLoaded, worldFile, run>>
    /\ UNCHANGED <<hexagons, terrain, floodVars, gameVars>>

\* a failed save clears the world again
BootSaveRollsBack ==
    /\ save.state = "pending"
    /\ \E outcome \in SaveOutcomes :
          IF outcome = "stored"
          THEN /\ worldFile' = loadSaved(save.data)
               /\ save' = [save EXCEPT !.state = "saved"]
               /\ UNCHANGED <<arrays, centerOwned>>
          ELSE /\ UNCHANGED worldFile
               /\ save' = [save EXCEPT !.state = "failed"]
               /\ buildWorldFromData(NoData)
    /\ last' = Call("save", NoInput, 0, -1, save'.state = "saved")
    /\ UNCHANGED <<territorySize, cities, projectiles, capitalPlaced, built>>
    /\ UNCHANGED <<pc, fetched, cachedDataLoaded, landImg, generated, run>>
    /\ UNCHANGED <<genVars, floodVars, gameVars>>

\* the save request settles: the server stores the body and replies
\* (part_010 lines 15-33), or the then/catch chain of lines 237-245 logs a
\* failure
BootSave ==
    /\ save.state = "pending"
    /\ \E outcome \in SaveOutcomes :
          IF outcome = "stored"
          THEN /\ worldFile' = loadSaved(save.data)
               /\ save' = [save EXCEPT !.state = "saved"]
          ELSE /\ UNCHANGED worldFile
               /\ save' = [save EXCEPT !.state = "failed"]
    /\ last' = Call("save", NoInput, 0, -1, save'.state = "saved")
    /\ UNCHANGED <<arrays, territory, projectiles, capitalPlaced, built>>
    /\ UNCHANGED <<pc, fetched, cachedDataLoaded, landImg, generated, run>>
    /\ UNCHANGED <<genVars, floodVars, gameVars>>

\* the page is loaded again: a new World; the server keeps its file, and
\* save and generated keep the fate of the last save request and the number
\* of generateWorldData calls so far
BootReload ==
    /\ pc = "done"
    /\ save.state # "pending"
    /\ run < MaxRuns
    /\ run' = run + 1
    /\ centers' = EmptyArray
    /\ centerNeighbors' = EmptyArray
    /\ centerWater' = EmptyArray
    /\ centerOwned' = EmptyArray
    /\ biomes' = EmptyArray
    /\ territorySize' = 0
    /\ cities' = <<>>
    /\ projectiles' = <<>>
    /\ capitalPlaced' = FALSE
    /\ built' = FALSE
    /\ last' = Call("new", NoInput, 0, -1, FALSE)
    /\ pc' = "idle"
    /\ fetched' = NoData
    /\ cachedDataLoaded' = FALSE
    /\ landImg' = FALSE
    /\ worldData' = NoData
    /\ UNCHANGED <<worldFile, save, generated, hexagons, terrain, floodVars, gameVars>>

BootPlaceCapital ==
    /\ placeCapitalCall(BootCapitalInputs)
    /\ UNCHANGED <<bootVars, genVars, floodVars, gameVars>>

BootStartExpansion ==
    /\ startExpansionCall(BootExpansionInputs, BootSpeeds)
    /\ UNCHANGED <<bootVars, genVars, floodVars, gameVars>>

BootIsSea ==
    /\ isSeaCall(BootSeaInputs)
    /\ UNCHANGED <<bootVars, genVars, floodVars, gameVars>>

BootNext ==
    \/ BootStart
    \/ BootFetch
    \/ BootJson
    \/ BootMask
    \/ BootSave
    \/ BootReload
    \/ BootPlaceCapital
    \/ BootStartExpansion
    \/ BootIsSea

BootSpec == BootInit /\ [][BootNext]_vars

-----------------------------------------------------------------------------
(* Vocabulary of the properties *)

OwnedCells == { i \in DOMAIN centerOwned : centerOwned[i] }

\* the nearest-cell contract stated without a loop: minimum squared distance,
\* lowest index among equals
NearestCell(pt) ==
    CHOOSE i \in Cells :
        \A j \in Cells :
            \/ distanceToSquared(pt, centers[i]) < distanceToSquared(pt, centers[j])
            \/ /\ distanceToSquared(pt, centers[i]) = distanceToSquared(pt, centers[j])
               /\ i <= j

\* the step is a call of op that carried a point and found a world with cells
CallAt(op) == last'.op = op /\ hasPoint(last'.input) /\ Cells # {}

Target == NearestCell(last'.input.point)

-----------------------------------------------------------------------------
(* C1: across placeCapital, startExpansion and update no owned flag goes   *)
(* from true to false and territorySize never decreases.                   *)
OwnershipMonotone ==
    [][ /\ \A i \in DOMAIN centerOwned :
              centerOwned[i] => (i \in DOMAIN centerOwned' /\ centerOwned'[i])
        /\ territorySize' >= territorySize ]_vars

\* update has run on a territory of two cells taken one after the other
OwnershipMonotoneWitness ==
    /\ last.op = "update"
    /\ Cardinality(OwnedCells) = 2
    /\ territorySize = 2

(* C2: with exactly one owned cell C, startExpansion succeeds on every     *)
(* non-water neighbour of C, fails on every non-water cell without an      *)
(* owned neighbour, and fails on every water cell.                         *)
AdjacencyGatedExpansion ==
    [][ (CallAt("startExpansion") /\ Cardinality(OwnedCells) = 1) =>
          LET C == CHOOSE c \in OwnedCells : TRUE
          IN  /\ centerWater[Target] => ~last'.ret
              /\ (~centerWater[Target] /\ Target \in centerNeighbors[C]) => last'.ret
              /\ (~centerWater[Target] /\ \A n \in centerNeighbors[Target] : ~centerOwned[n])
                    => ~last'.ret ]_vars

\* a second cell has just been taken next to the only owned one
AdjacencyGatedExpansionWitness ==
    /\ last.op = "startExpansion"
    /\ last.ret
    /\ Cardinality(OwnedCells) = 2
    /\ territorySize = 2
    /\ \E c \in OwnedCells \ {last.best} : last.best \in centerNeighbors[c]

(* C3: startExpansion fails whenever the nearest cell is already owned,    *)
(* also when that cell has an owned neighbour.                             *)
RejectsOwnedTarget ==
    [][ (CallAt("startExpansion") /\ centerOwned[Target]) => ~last'.ret ]_vars

(* C4: territorySize equals the number of cells whose owned flag is true.  *)
TerritoryCountsOwned == territorySize = Cardinality(OwnedCells)

(* C5: once a capital has been placed, every later placeCapital returns    *)
(* false and leaves owned flags, territorySize and cities unchanged.       *)
SingleCapital ==
    [][ (last'.op = "placeCapital" /\ cities # <<>>) =>
          (~last'.ret /\ UNCHANGED territory) ]_vars

(* C6: placeCapital returns false and changes no owned flag, territorySize *)
(* or city whenever the cell nearest to the point is water.                *)
CapitalRejectsWater ==
    [][ (CallAt("placeCapital") /\ centerWater[Target]) =>
          (~last'.ret /\ UNCHANGED territory) ]_vars

\* a placeCapital aimed at a water cell has been rejected
CapitalRejectsWaterWitness ==
    /\ last.op = "placeCapital"
    /\ hasPoint(last.input)
    /\ Cells # {}
    /\ centerWater[NearestCell(last.input.point)]
    /\ ~last.ret

(* C7: on a fresh world placeCapital succeeds for every point whose        *)
(* nearest cell is not water, whatever its neighbours: it returns true,    *)
(* marks that cell owned, makes territorySize 1 and appends one City.      *)
CapitalExemption ==
    [][ (CallAt("placeCapital") /\ territorySize = 0 /\ OwnedCells = {}
           /\ ~centerWater[Target]) =>
          /\ last'.ret
          /\ centerOwned' = [centerOwned EXCEPT ![Target] = TRUE]
          /\ territorySize' = 1
          /\ Len(cities') = Len(cities) + 1
          /\ SubSeq(cities', 1, Len(cities)) = cities ]_vars

\* the capital stands alone on a world that had no owned cell
CapitalExemptionWitness ==
    /\ last.op = "placeCapital"
    /\ last.ret
    /\ territorySize = 1
    /\ Len(cities) = 1
    /\ OwnedCells = {last.best}
    /\ \A n \in centerNeighbors[last.best] : ~centerOwned[n]

(* C8: a placeCapital or startExpansion call that returns false leaves     *)
(* every owned flag, territorySize and the cities list as they were.       *)
RejectionChangesNothing ==
    [][ (last'.op \in {"placeCapital", "startExpansion"} /\ ~last'.ret) =>
          UNCHANGED territory ]_vars

\* an expansion onto a land cell away from the territory has been rejected
RejectionChangesNothingWitness ==
    /\ last.op = "startExpansion"
    /\ ~last.ret
    /\ hasPoint(last.input)
    /\ last.best # -1
    /\ ~centerWater[last.best]
    /\ territorySize > 0

(* C9: startExpansion fails, changing nothing, whenever the speed /        *)
(* committed force argument is less than or equal to 0.                    *)
RejectsNonPositiveForce ==
    [][ (last'.op = "startExpansion" /\ last'.speed <= 0) =>
          (~last'.ret /\ UNCHANGED territory) ]_vars

(* C10: placeCapital, isSea and startExpansion map a point to the same     *)
(* cell: the one at minimum squared distance, the lowest index among       *)
(* equals; the same point on the same world gives the same index again.    *)
NearestCellAgrees ==
    Cells # {} =>
        /\ (last.op \in {"placeCapital", "startExpansion"} /\ hasPoint(last.input))
              => last.best = NearestCell(last.input.point)
        /\ (last.op = "isSea" /\ last.input.kind \in {"intersection", "vector3"})
              => last.best = NearestCell(last.input.point)

NearestCellRepeats ==
    (/\ last'.op = last.op
     /\ last.op \in {"placeCapital", "isSea", "startExpansion"}
     /\ last'.input = last.input
     /\ centers' = centers) => last'.best = last.best

NearestCellContract == []NearestCellAgrees /\ [][NearestCellRepeats]_vars

\* isSea has answered for a point half way between two centres and took
\* the lower index
NearestCellContractWitness ==
    /\ last.op = "isSea"
    /\ last.input.kind = "intersection"
    /\ Cells # {}
    /\ \E j \in Cells :
          /\ j > last.best
          /\ distanceToSquared(last.input.point, centers[j])
                = distanceToSquared(last.input.point, centers[last.best])

OneExpansionAtATime ==
    /\ [](Len(expansions) <= 1)
    /\ [][ (last'.op = "startExpansion" /\ Len(expansions) > 0) =>
             (~last'.ret /\ UNCHANGED <<vertexOwned, territorySize, expansions>>) ]_vars

\* a request aimed at a free land vertex was turned down because of the
\* expansion already running
OneExpansionAtATimeWitness ==
    /\ last.op = "startExpansion"
    /\ ~last.ret
    /\ Len(expansions) = 1
    /\ \E v \in Vertices :
          /\ v = closestVertex(last.input.point)
          /\ ~vertexWater[v]
          /\ ~vertexOwned[v]

(* C13: placeCapital, startExpansion and isSea never act on a partially    *)
(* applied snapshot: until init() has committed its final world the world  *)
(* is empty, and once a world is visible the same init() never replaces    *)
(* its arrays or resets an owned flag.                                     *)
AllOrNothingCommit ==
    /\ [](pc \in {"idle", "fetch", "json", "mask"} => Cells = {})
    /\ [][ (Cells # {} /\ run' = run) =>
              /\ UNCHANGED arrays
              /\ \A i \in DOMAIN centerOwned :
                    centerOwned[i] => (i \in DOMAIN centerOwned' /\ centerOwned'[i]) ]_vars

sameLengths(data) ==
    /\ DOMAIN data.centerNeighbors = DOMAIN data.centers
    /\ DOMAIN data.centerWater = DOMAIN data.centers
    /\ DOMAIN data.biomes = DOMAIN data.centers

indicesInRange(data) ==
    \A i \in DOMAIN data.centerNeighbors : data.centerNeighbors[i] \subseteq DOMAIN data.centers

malformed(data) == ~(sameLengths(data) /\ indicesInRange(data))

(* C14: a cached snapshot whose arrays differ in length, or whose          *)
(* neighbour lists hold an index outside [0,N), is rejected: none of its   *)
(* arrays become the world's state and init() goes on to generation.       *)
RejectsMalformedSnapshot ==
    [][ (last'.op = "json" /\ malformed(fetched)) =>
           (pc' = "mask" /\ ~cachedDataLoaded' /\ UNCHANGED <<arrays, centerOwned>>) ]_vars

usable(data) == data.present /\ data.missing = {} /\ ~malformed(data)

(* C15: init() always ends with a built world: a cache fetch that returns  *)
(* not-found, fails or yields unusable data leads to generation, and       *)
(* generation runs whatever the outcome of loading the reference image.    *)
InitAlwaysBuilds ==
    /\ [](pc = "done" => built)
    /\ [][ (last'.op = "fetch" /\ fetched' = NoData) => pc' = "mask" ]_vars
    /\ [][ (last'.op = "json" /\ ~usable(fetched)) => pc' = "mask" ]_vars
    /\ [][ last'.op = "mask" =>
              (pc' = "done" /\ built' /\ generated' = generated + 1) ]_vars

(* C16: on the generation path the world is built from the generated data  *)
(* when the save is issued, init() completes without waiting for the       *)
(* reply, and no reply to the save, failure included, changes the world.   *)
SaveNeverBlocks ==
    /\ [](save.state = "pending" => (pc = "done" /\ built))
    /\ [][ last'.op = "mask" =>
              /\ save' = saveWorldDataToFile(worldData')
              /\ centers' = worldData'.centers
              /\ centerNeighbors' = worldData'.centerNeighbors
              /\ centerWater' = worldData'.centerWater
              /\ biomes' = worldData'.biomes ]_vars
    /\ [][ last'.op = "save" => UNCHANGED <<arrays, territory, pc, built>> ]_vars

\* a save has failed on a generated world in which a capital stands
SaveNeverBlocksWitness ==
    /\ last.op = "save"
    /\ save.state = "failed"
    /\ pc = "done"
    /\ Cells # {}
    /\ centerOwned[0]

EmptyGenerationFails ==
    /\ [][ (last'.op = "mask" /\ DOMAIN worldData'.centers = {}) =>
              (~built' /\ save' = save) ]_vars
    /\ []((pc = "done" /\ worldData.present) => Cells # {})

(* C19: in every world that init() has built, from the cache or by         *)
(* generation, centerWater[i] is true exactly when biomes[i] is 'ocean'.   *)
WaterMatchesBiome ==
    [](built => \A i \in Cells :
                   truthy(centerWater, i) <=> (i \in DOMAIN biomes /\ biomes[i] = "ocean"))

(* C20: the adjacency graph produced by generation is symmetric: every j   *)
(* in centerNeighbors[i] is a cell and has i in centerNeighbors[j], also   *)
(* when h3 neighbours outside the generated cell set were dropped; the     *)
(* index-buffer adjacency of the frontier-flood variant is symmetric too.  *)
symmetric(nb) == \A i \in DOMAIN nb : \A j \in nb[i] : j \in DOMAIN nb /\ i \in nb[j]

elements(arr) == { arr[k] : k \in 1 .. Len(arr) }

AdjacencySymmetric ==
    /\ symmetric(worldData.centerNeighbors)
    /\ symmetric(centerNeighbors)
    /\ symmetric([v \in DOMAIN vertexNeighbors |-> elements(vertexNeighbors[v])])

\* a generated world in which the first cell of the list lost a neighbour
\* that h3 reports and kept another one, built and installed
AdjacencySymmetricWitness ==
    /\ built
    /\ Len(hexagons) = 2
    /\ gridDisk(hexagons[1]) \ {hexagons[1]} # {hexagons[2]}
    /\ centerNeighbors[0] = {1}
    /\ centerNeighbors[1] = {0}
    /\ vertexOwned # EmptyArray
    /\ \E v \in DOMAIN vertexNeighbors : vertexNeighbors[v] # <<>>

(* C21: every snapshot generateWorldData returns is structurally valid:    *)
(* its eight arrays have the same length N, and every entry of every       *)
(* neighbour list is an index in [0,N) other than the cell's own index;    *)
(* neighbours outside the generated set are dropped.                       *)
StructurallyValid ==
    worldData.present =>
        LET idx == 0 .. (Len(hexagons) - 1)
            cols == generatedColumns(hexagons, terrain)
        IN  /\ DOMAIN worldData.centers = idx
            /\ DOMAIN worldData.centerNeighbors = idx
            /\ DOMAIN worldData.centerWater = idx
            /\ DOMAIN worldData.biomes = idx
            /\ DOMAIN cols.centerLat = idx
            /\ DOMAIN cols.centerLng = idx
            /\ DOMAIN cols.hexagons = idx
            /\ DOMAIN cols.elevations = idx
            /\ \A i \in idx : \A j \in worldData.centerNeighbors[i] : j \in idx /\ j # i

\* a generated snapshot in which a cell lost a neighbour that h3 reports
\* and kept another
StructurallyValidWitness ==
    /\ worldData.present
    /\ \E i \in DOMAIN worldData.centerNeighbors :
          /\ worldData.centerNeighbors[i] # {}
          /\ Cardinality(worldData.centerNeighbors[i])
                < Cardinality(gridDisk(hexagons[i + 1]) \ {hexagons[i + 1]})

(* C22: each cell's biome is the first match of the priority table: above  *)
(* the pole latitude 'pole' whatever the elevation (so never water), else  *)
(* below sea level 'ocean', else below sea level plus the coast band       *)
(* 'coast', else above the mountain level 'mountain', else the dryness     *)
(* sample decides 'desert' or 'land'.                                      *)
BiomePriority ==
    worldData.present =>
        \A i \in DOMAIN worldData.biomes :
            LET s == terrain[hexagons[i + 1]]
                b == worldData.biomes[i]
                polar == s.lat > PoleLatitude \/ s.lat < 0 - PoleLatitude
                inland == ~polar /\ s.elevation >= SeaLevel + CoastBand
            IN  /\ polar => (b = "pole" /\ ~worldData.centerWater[i])
                /\ (~polar /\ s.elevation < SeaLevel) => b = "ocean"
                /\ (~polar /\ s.elevation >= SeaLevel /\ ~inland) => b = "coast"
                /\ (inland /\ s.elevation > MountainLevel) => b = "mountain"
                /\ (inland /\ s.elevation <= MountainLevel /\ s.dry > DryLevel)
                      => b = "desert"
                /\ (inland /\ s.elevation <= MountainLevel /\ s.dry <= DryLevel)
                      => b = "land"

\* a generated world with a polar cell below sea level and a cell of each
\* of two further biomes
BiomePriorityWitness ==
    /\ worldData.present
    /\ \E i \in DOMAIN worldData.biomes :
          /\ worldData.biomes[i] = "pole"
          /\ terrain[hexagons[i + 1]].elevation < SeaLevel
    /\ \E i \in DOMAIN worldData.biomes : worldData.biomes[i] = "ocean"
    /\ \E i \in DOMAIN worldData.biomes : worldData.biomes[i] = "coast"

(* C23: the classification mode follows the reference image: when the      *)
(* image was loaded before generation every cell is classified from the    *)
(* brightness sampled in the image, and from the procedural formula only   *)
(* when no image is available.                                             *)
ImageChoosesMode ==
    [][ last'.op = "mask" =>
           \A i \in DOMAIN worldData'.biomes :
               worldData'.biomes[i] =
                   biomeOf(IF landImg' THEN imageTerrain[i + 1] ELSE bootTerrain[i + 1]) ]_vars

(* C24: saving a generated snapshot and loading it back reconstructs an    *)
(* equal world: the JSON posted by saveWorldDataToFile, stored by the save *)
(* endpoint and parsed again equals the generated data array for array,    *)
(* and the world built from it equals the world built from the generated   *)
(* data.                                                                   *)
SnapshotRoundTrip ==
    /\ worldFile.present =>
          /\ worldFile = worldData
          /\ loadSavedColumns(generatedColumns(hexagons, terrain))
                = generatedColumns(hexagons, terrain)
    /\ (built /\ worldData.present) =>
          /\ centers = worldData.centers
          /\ centerNeighbors = worldData.centerNeighbors
          /\ centerWater = worldData.centerWater
          /\ biomes = worldData.biomes

\* a world of two cells, one of them ocean, built from the stored file
SnapshotRoundTripWitness ==
    /\ last.op = "json"
    /\ built
    /\ Len(hexagons) = 2
    /\ centerNeighbors[0] = {1}
    /\ \E i \in Cells : centerWater[i]

\* the owned cells that can be reached from S through owned neighbours
RECURSIVE ownedReach(_)
ownedReach(S) ==
    LET T == S \cup { j \in OwnedCells : \E i \in S : j \in centerNeighbors[i] }
    IN  IF T = S THEN S ELSE ownedReach(T)

(* C25: the owned region is always contiguous: after any sequence of       *)
(* placeCapital and startExpansion calls every owned cell is connected to  *)
(* every other owned cell through a path of owned neighbouring cells.      *)
OwnedContiguous ==
    [](OwnedCells # {} => ownedReach({CHOOSE c \in OwnedCells : TRUE}) = OwnedCells)

(* C26: no water cell is ever owned: after any sequence of placeCapital,   *)
(* startExpansion and update calls every owned cell has its water flag     *)
(* false, for centerOwned / centerWater in the single-cell variant and for *)
(* vertexOwned / vertexWater in the frontier-flood variant.                *)
NoWaterOwned ==
    /\ \A i \in DOMAIN centerOwned : centerOwned[i] => ~truthy(centerWater, i)
    /\ \A v \in DOMAIN vertexOwned : vertexOwned[v] => ~vertexWater[v]

\* the flood has spread from its start and stands next to a water vertex
NoWaterOwnedWitness ==
    /\ last.op = "update"
    /\ territorySize >= 2
    /\ \E v \in DOMAIN vertexOwned :
          /\ vertexOwned[v]
          /\ \E k \in 1 .. Len(vertexNeighbors[v]) : vertexWater[vertexNeighbors[v][k]]

(* C27: update(delta) advances every projectile by delta * speed; one that *)
(* reaches 1 or more is removed in the same call and its onComplete is     *)
(* invoked exactly once; those below 1 stay in their original order; no    *)
(* projectile with progress >= 1 remains after update.                     *)
ProjectilesAdvance ==
    [][ last'.op = "update" =>
          \E delta \in Deltas :
            LET n == Len(projectiles)
                progressed == [k \in 1 .. n |->
                                 projectiles[k].progress + delta * projectiles[k].speed]
                kept == { k \in 1 .. n : progressed[k] < ProgressDone }
                place(k) == Cardinality({ m \in kept : m <= k })
                called == { k \in (1 .. n) \ kept : projectiles[k].onComplete # 0 }
                fresh == SubSeq(completions', Len(completions) + 1, Len(completions'))
            IN  /\ Len(projectiles') = Cardinality(kept)
                /\ \A k \in kept :
                      projectiles'[place(k)] =
                          [projectiles[k] EXCEPT !.progress = progressed[k]]
                /\ \A j \in 1 .. Len(projectiles') :
                      projectiles'[j].progress < ProgressDone
                /\ SubSeq(completions', 1, Len(completions)) = completions
                /\ Len(fresh) = Cardinality(called)
                /\ \A j \in 1 .. Len(fresh) :
                      \E k \in called : fresh[j] = projectiles[k].onComplete ]_vars

\* an update removed a projectile that reached exactly 1, called its
\* onComplete, and kept a slower projectile on either side of it
ProjectilesAdvanceWitness ==
    /\ last.op = "update"
    /\ Len(projectiles) = 2
    /\ Len(completions) = 1
    /\ projectiles[1].progress = 400
    /\ projectiles[2].progress = 440

OwnedVertices == { v \in DOMAIN vertexOwned : vertexOwned[v] }

\* the non-water vertices that can be reached from S through non-water
\* vertices
RECURSIVE landReach(_)
landReach(S) ==
    LET T == S \cup { w \in DOMAIN vertexWater :
                        /\ ~vertexWater[w]
                        /\ \E v \in S : includes(vertexNeighbors[v], w) }
    IN  IF T = S THEN S ELSE landReach(T)

FloodComplete == OwnedVertices # {} /\ OwnedVertices = landReach(OwnedVertices)

(* C28: after a successful startExpansion at a land vertex s with a        *)
(* positive speed, repeated update(delta, true) makes the owned set equal  *)
(* to the non-water vertices reachable from s through non-water vertices,  *)
(* and from then on territorySize does not change; every frontier vertex   *)
(* is owned at every step.  The owned set starts as {s}, stays within the  *)
(* vertices reachable from each of its members, and in the end is closed   *)
(* under non-water neighbours.                                             *)
FloodFills ==
    /\ (Len(expansions) > 0 /\ expansions[1].speed > 0) ~> FloodComplete
    /\ [][ (last'.op = "startExpansion" /\ last'.ret) =>
              OwnedVertices' = {last'.best} ]_vars
    /\ [](\A s \in OwnedVertices : OwnedVertices \subseteq landReach({s}))
    /\ [][ FloodComplete => (territorySize' = territorySize /\ UNCHANGED vertexOwned) ]_vars
    /\ [](\A k \in 1 .. Len(expansions) :
             \A j \in 1 .. Len(expansions[k].frontier) :
                 vertexOwned[expansions[k].frontier[j]])

\* the flood has taken three vertices and stopped at a water vertex
FloodFillsWitness ==
    /\ last.op = "update"
    /\ FloodComplete
    /\ Cardinality(OwnedVertices) = 3
    /\ territorySize = 3
    /\ \E v \in Vertices : vertexWater[v]

-----------------------------------------------------------------------------
(* Game: the click handler and the menu flag, src/core/Game.ts *)

\* the committed force of a click
ClickSpeed == 50

\* Math.max(1, troops * 0.1) of the HUD, with no troops
HudSpeeds == {1}

\* inputManager.getIntersection(): nothing under the pointer, the globe, or
\* another object of the scene
NoHit == [hit |-> FALSE, object |-> "none", input |-> NoInput]

ClickHits ==
    {NoHit} \cup { [hit |-> TRUE, object |-> o, input |-> i] :
                   o \in {"globe", "other"}, i \in Intersections }

\* what a click leaves behind: the startExpansion outcome and the menu flag
ClickOutcome(out, active) == [world |-> out, gameActive |-> active]

\* a click handler without the !this.gameActive test
onMouseClickAnyTime(intersection) ==
    IF intersection.hit /\ built /\ intersection.object = "globe"
    THEN LET started == startExpansion(intersection.input, ClickSpeed)
         IN  ClickOutcome(started, started.ret \/ gameActive)
    ELSE ClickOutcome(Rejected(-1), gameActive)

\* onMouseClick(); this.world.globe is null until the world is built
onMouseClick(intersection) ==
    IF ~gameActive /\ intersection.hit /\ built /\ intersection.object = "globe"
    THEN LET started == startExpansion(intersection.input, ClickSpeed)
         IN  ClickOutcome(started, started.ret \/ gameActive)
    ELSE ClickOutcome(Rejected(-1), gameActive)

GameClick ==
    \E intersection \in ClickHits :
        \E out \in {onMouseClick(intersection)} :
            /\ out.world.ret => territorySize < MaxTerritory
            /\ centerOwned' = out.world.centerOwned
            /\ territorySize' = out.world.territorySize
            /\ cities' = out.world.cities
            /\ gameActive' = out.gameActive
            /\ last' = Call("onMouseClick", intersection.input, ClickSpeed,
                            out.world.best, out.world.ret)
            /\ UNCHANGED <<centers, centerNeighbors, centerWater, biomes, projectiles,
                           capitalPlaced, built, completions,
                           bootVars, genVars, floodVars>>

\* startExpansion called from outside the click handler: the HUD's attack
\* entry passes its uv value, other callers null or an intersection
GameStartExpansion ==
    /\ startExpansionCall(Inputs, HudSpeeds)
    /\ UNCHANGED <<bootVars, genVars, floodVars, gameVars>>

GameNext ==
    \/ InitWorld
    \/ PlaceCapital
    \/ IsSea
    \/ GameStartExpansion
    \/ GameClick
    \/ Update

GameSpec == Init /\ [][GameNext]_vars

(* C29: a click changes ownership only while gameActive is false; the      *)
(* click sets gameActive exactly when the startExpansion it called         *)
(* returned true (last.ret is FALSE for a click that called nothing);      *)
(* gameActive never goes back to false, and a click made while it is true  *)
(* changes no owned flag and not territorySize.                            *)
ClickOnlyInMenu ==
    /\ [][ last'.op = "onMouseClick" =>
              /\ gameActive => (centerOwned' = centerOwned /\ territorySize' = territorySize)
              /\ gameActive' = (gameActive \/ last'.ret) ]_vars
    /\ [][ gameActive => gameActive' ]_vars

\* a click on the globe of an all-land world after the game was activated
ClickOnlyInMenuWitness ==
    /\ gameActive
    /\ last.op = "onMouseClick"
    /\ last.input.kind = "intersection"
    /\ ~last.ret
    /\ territorySize = 1
    /\ \A c \in Cells : ~centerWater[c]

(* C30: on a world without cells, or with an input that carries no point   *)
(* (null, or the HUD's uv value), placeCapital and startExpansion return   *)
(* false, isSea returns true, and no owned flag, territorySize or city     *)
(* changes.                                                                *)
NoPointNoEffect ==
    [][ (/\ last'.op \in {"placeCapital", "startExpansion", "isSea"}
         /\ (length(centers) = 0 \/ last'.input.kind \in {"null", "uv"}))
        => /\ last'.ret = (last'.op = "isSea")
           /\ UNCHANGED <<centerOwned, territorySize, cities>> ]_vars

\* the HUD's attack on a built world that already has territory
NoPointNoEffectWitness ==
    /\ built
    /\ territorySize = 1
    /\ last.op = "startExpansion"
    /\ last.input.kind = "uv"
    /\ ~last.ret

====
